---------------------------- MODULE Spec2Model ----------------------------
(***************************************************************************)
(* A model of ShikshaMitra (src/app.py): a Streamlit application with a    *)
(* login/registration page backed by a MongoDB users collection, a college *)
(* predictor over a static cutoff table, a Gemini chatbot, an issue        *)
(* submission page (MongoDB insert, then a confirmation mail) and logout.  *)
(*                                                                         *)
(* Conventions.  A Python str is a sequence of one-character strings, so   *)
(* that strip(), truthiness, numeric parsing and the markup conversion are *)
(* computed, not assumed.  Python's None is the value None, a pandas       *)
(* missing value (NaN) is the value NaN.  The texts the pages show         *)
(* (st.error, st.success, ...) are plain TLA+ strings.                     *)
(***************************************************************************)
EXTENDS Integers, Sequences, FiniteSets, TLC

VARIABLES
    users,      \* the users collection: sequence of {"username","password"} documents
    issues,     \* the issues collection: sequence of ticket documents
    df,         \* the cutoff table data/cutoffs_modified.csv as read by load_data()
    session,    \* st.session_state of each browser session
    pending,    \* a register_user call between its find_one and its insert_one
    last        \* the last handled widget event and everything it showed

vars == <<users, issues, df, session, pending, last>>

--------------------------------------------------------------------------
(* Bounds of the model. *)

MaxRows == 2        \* rows of the cutoff table
MaxRank == 2        \* largest rank typed into "Your Rank"
MaxUsers == 2       \* documents in the users collection
MaxIssues == 2      \* documents in the issues collection
MaxChat == 3        \* entries of chat_history

--------------------------------------------------------------------------
(* Values. *)

None == <<"None">>
NaN == <<"NaN">>
Num(n) == <<"num", n>>

Sessions == {"s1", "s2"}

Whitespace == {" ", "\t", "\n"}

RECURSIVE lstrip(_)
lstrip(s) ==
    IF s # <<>> /\ Head(s) \in Whitespace THEN lstrip(Tail(s)) ELSE s

RECURSIVE rstrip(_)
rstrip(s) ==
    IF s # <<>> /\ s[Len(s)] \in Whitespace
    THEN rstrip(SubSeq(s, 1, Len(s) - 1))
    ELSE s

\* str.strip(): surrounding whitespace removed
strip(s) == rstrip(lstrip(s))

\* truth value of a Python str: non-empty
Truthy(s) == s # <<>> /\ s # None

--------------------------------------------------------------------------
(* College Predictor: the cutoff table and the Predict handler. *)

CutoffCols == <<"gen", "mews", "fews", "mobc", "fobc", "msc", "fsc", "mst", "fst">>
CutoffColSet == {CutoffCols[i] : i \in 1..Len(CutoffCols)}
ColIndex(c) == CHOOSE i \in 1..Len(CutoffCols) : CutoffCols[i] = c

Genders == {"male", "female"}
Categories == {"Gen", "EWS", "OBC", "SC", "ST"}

Digits == <<"0", "1", "2", "3", "4", "5", "6", "7", "8", "9">>
IsDigit(ch) == \E i \in 1..Len(Digits) : Digits[i] = ch
DigitVal(ch) == (CHOOSE i \in 1..Len(Digits) : Digits[i] = ch) - 1

RECURSIVE ParseInt(_)
ParseInt(s) ==
    IF s = <<>> THEN 0
    ELSE 10 * ParseInt(SubSeq(s, 1, Len(s) - 1)) + DigitVal(s[Len(s)])

\* pd.to_numeric(value, errors="coerce"): a value that parses is the number,
\* anything else (a missing value too) is NaN.  Cells are decimal numerals
\* or other text; signs, fractions and exponents are outside the alphabet.
to_numeric(v) ==
    IF v # NaN /\ v # <<>> /\ \A i \in 1..Len(v) : IsDigit(v[i])
    THEN Num(ParseInt(v))
    ELSE NaN

\* Series.astype(str): a missing value becomes the text "nan"
astype_str(v) == IF v = NaN THEN <<"n", "a", "n">> ELSE v

\* Series >= n: a comparison with NaN is False
GreaterEq(v, n) == v # NaN /\ v[2] >= n

isna(v) == v = NaN

\* the options of the "SFS or GAS category" selectbox:
\* df["category"].dropna().astype(str).unique()
CategoryOptions(d) ==
    {astype_str(d.rows[i].category) : i \in {j \in 1..Len(d.rows) : d.rows[j].category # NaN}}

category_column_map(gender) ==
    [Gen |-> "gen",
     EWS |-> IF gender = "male" THEN "mews" ELSE "fews",
     OBC |-> IF gender = "male" THEN "mobc" ELSE "fobc",
     SC  |-> IF gender = "male" THEN "msc" ELSE "fsc",
     ST  |-> IF gender = "male" THEN "mst" ELSE "fst"]

\* df[df["category"].astype(str).str.strip() == sfs_gas.strip()]:
\* the rows of the group, in the order of the frame
RECURSIVE GroupFilter(_, _)
GroupFilter(rows, sfs_gas) ==
    IF rows = <<>> THEN <<>>
    ELSE IF strip(astype_str(Head(rows).category)) = strip(sfs_gas)
         THEN <<Head(rows)>> \o GroupFilter(Tail(rows), sfs_gas)
         ELSE GroupFilter(Tail(rows), sfs_gas)

\* RankMask with > in place of >=
RankMaskStrict(r, col, rank) ==
    (to_numeric(r.cells[col]) # NaN /\ to_numeric(r.cells[col])[2] > rank)
    \/ isna(to_numeric(r.cells[col]))

\* the mask (filtered_df[col] >= int(input_rank)) | filtered_df[col].isna()
\* on the coerced column
RankMask(r, col, rank) ==
    GreaterEq(to_numeric(r.cells[col]), rank) \/ isna(to_numeric(r.cells[col]))

\* RankFilter returning the kept rows in the reverse of the frame's order
RECURSIVE RankFilterReversed(_, _, _)
RankFilterReversed(rows, col, rank) ==
    IF rows = <<>> THEN <<>>
    ELSE IF RankMask(Head(rows), col, rank)
         THEN RankFilterReversed(Tail(rows), col, rank) \o <<Head(rows)>>
         ELSE RankFilterReversed(Tail(rows), col, rank)

\* filtered_df[mask]: the rows the mask keeps, in the order of the frame
RECURSIVE RankFilter(_, _, _)
RankFilter(rows, col, rank) ==
    IF rows = <<>> THEN <<>>
    ELSE IF RankMask(Head(rows), col, rank)
         THEN <<Head(rows)>> \o RankFilter(Tail(rows), col, rank)
         ELSE RankFilter(Tail(rows), col, rank)

\* [["Institute", "Branch", category_column]].rename(columns={...: "Cutoff"})
Project(rows, col) ==
    [i \in 1..Len(rows) |->
        [Institute |-> rows[i].Institute,
         Branch |-> rows[i].Branch,
         Cutoff |-> to_numeric(rows[i].cells[col])]]

\* What a click on Predict shows: the result table, the error text, or the
\* exception of sfs_gas.strip() when the selectbox had no option (None).
PredictHandler(d, gender, sfs_gas, category, input_rank) ==
    LET category_column == category_column_map(gender)[category]
    IN  IF sfs_gas = None
        THEN [out |-> "exception", table |-> <<>>]
        ELSE IF category_column \notin d.columns
        THEN [out |-> "Category column not found", table |-> <<>>]
        ELSE [out |-> "dataframe",
              table |-> Project(RankFilter(GroupFilter(d.rows, sfs_gas),
                                           category_column, input_rank),
                                category_column)]

--------------------------------------------------------------------------
(* Credentials: the users collection, register_user and login_user. *)

PyTrue == <<"True">>
PyFalse == <<"False">>

\* generate_password_hash(password, method="pbkdf2:sha256"): a one-way
\* image of the password, never the password itself (the salt is left out)
generate_password_hash(password) == <<"pbkdf2:sha256", password>>

check_password_hash(pwhash, password) == pwhash = generate_password_hash(password)

\* collection.find_one({"username": username}): the first matching document
\* as a one-element sequence, or the empty sequence for None
find_one(coll, username) ==
    LET hits == {i \in 1..Len(coll) : coll[i].username = username}
    IN  IF hits = {} THEN <<>>
        ELSE <<coll[CHOOSE i \in hits : \A j \in hits : i <= j]>>

\* collection.insert_one(doc)
insert_one(coll, doc) == Append(coll, doc)

\* user and check_password_hash(user["password"], password)
login_user(coll, username, password) ==
    LET user == find_one(coll, username)
    IN  IF user = <<>> THEN None
        ELSE IF check_password_hash(user[1].password, password) THEN PyTrue
        ELSE PyFalse

\* truth value of what login_user returns, as "if login_user(...)" takes it
IsTrue(v) == v = PyTrue

--------------------------------------------------------------------------
(* Chatbot: format_text, ask_gemini and the chat handler. *)

Bullet == "(U+2022)"

\* the position of the "**" that closes a bold span opened before j under
\* the lazy (.*?), which does not cross a newline; 0 when there is none
RECURSIVE CloseBold(_, _)
CloseBold(s, j) ==
    IF j + 1 > Len(s) THEN 0
    ELSE IF s[j] = "*" /\ s[j + 1] = "*" THEN j
    ELSE IF s[j] = "\n" THEN 0
    ELSE CloseBold(s, j + 1)

\* re.sub(r"\*\*(.*?)\*\*", "<b>\1</b>", text)
RECURSIVE SubBold(_)
SubBold(s) ==
    IF s = <<>> THEN <<>>
    ELSE IF Len(s) >= 4 /\ s[1] = "*" /\ s[2] = "*" /\ CloseBold(s, 3) # 0
         THEN LET j == CloseBold(s, 3)
              IN  <<"<", "b", ">">> \o SubSeq(s, 3, j - 1) \o <<"<", "/", "b", ">">>
                  \o SubBold(SubSeq(s, j + 2, Len(s)))
         ELSE <<Head(s)>> \o SubBold(Tail(s))

\* text.replace("*", bullet).replace("\n", "<br>")
RECURSIVE ReplaceMarks(_)
ReplaceMarks(s) ==
    IF s = <<>> THEN <<>>
    ELSE (IF Head(s) = "*" THEN <<Bullet>>
          ELSE IF Head(s) = "\n" THEN <<"<", "b", "r", ">">>
          ELSE <<Head(s)>>) \o ReplaceMarks(Tail(s))

format_text(text) == ReplaceMarks(SubBold(text))

\* What generate_content does: it raises, or it returns a response whose
\* text is a str or None.
GenRaises == [raises |-> TRUE, text |-> None]
GenText(t) == [raises |-> FALSE, text |-> t]

\* str(getattr(resp, "text", "") or "") and format_text of it
ask_gemini(gen) == format_text(IF Truthy(gen.text) THEN gen.text ELSE <<>>)

\* The chat handler on a prompt: the user entry is appended, then the reply
\* is generated and appended; an exception of generate_content ends the run
\* of the script after the first append.
ChatHandler(chat_history, prompt, gen) ==
    LET withUser == Append(chat_history, [role |-> "user", content |-> prompt])
    IN  IF gen.raises
        THEN [chat_history |-> withUser, out |-> "exception"]
        ELSE [chat_history |->
                  Append(withUser, [role |-> "assistant", content |-> ask_gemini(gen)]),
              out |-> "reply"]

--------------------------------------------------------------------------
(* Submit Issue: the issues collection, send_mail and the Submit handler. *)

Required == "Name, Email, and Issue are required."
Submitted == "Issue submitted. Confirmation email sent."
SavedNoMail == "Issue saved, but email failed"

\* SubmitHandler with the mail failure undoing the insert and ending the
\* submission as a hard failure
SubmitHandlerRollback(coll, name, email, mobile, issue, insertOk, sendOk) ==
    LET doc == [name |-> name, email |-> email, mobile |-> mobile, issue |-> issue]
    IN  IF ~(Truthy(name) /\ Truthy(email) /\ Truthy(issue))
        THEN [issues |-> coll, out |-> Required, calls |-> <<>>]
        ELSE IF ~insertOk
        THEN [issues |-> coll, out |-> "exception",
              calls |-> << <<"insert_one", "raised">> >>]
        ELSE IF sendOk
        THEN [issues |-> insert_one(coll, doc), out |-> Submitted,
              calls |-> << <<"insert_one", "ok">>, <<"send_mail", "ok">> >>]
        ELSE [issues |-> coll, out |-> "exception",
              calls |-> << <<"insert_one", "ok">>, <<"send_mail", "raised">> >>]

\* SubmitHandler with the insert inside the try block: a failed insert is
\* reported like a failed mail
SubmitHandlerInsertInTry(coll, name, email, mobile, issue, insertOk, sendOk) ==
    LET doc == [name |-> name, email |-> email, mobile |-> mobile, issue |-> issue]
    IN  IF ~(Truthy(name) /\ Truthy(email) /\ Truthy(issue))
        THEN [issues |-> coll, out |-> Required, calls |-> <<>>]
        ELSE IF ~insertOk
        THEN [issues |-> coll, out |-> SavedNoMail,
              calls |-> << <<"insert_one", "raised">> >>]
        ELSE IF sendOk
        THEN [issues |-> insert_one(coll, doc), out |-> Submitted,
              calls |-> << <<"insert_one", "ok">>, <<"send_mail", "ok">> >>]
        ELSE [issues |-> insert_one(coll, doc), out |-> SavedNoMail,
              calls |-> << <<"insert_one", "ok">>, <<"send_mail", "raised">> >>]

\* The handler of the Submit button.  insertOk and sendOk say whether
\* insert_one and send_mail return or raise.  calls lists the calls made to
\* the two collaborators, in order, each with how it ended.
SubmitHandler(coll, name, email, mobile, issue, insertOk, sendOk) ==
    LET doc == [name |-> name, email |-> email, mobile |-> mobile, issue |-> issue]
    IN  IF ~(Truthy(name) /\ Truthy(email) /\ Truthy(issue))
        THEN [issues |-> coll, out |-> Required, calls |-> <<>>]
        ELSE IF ~insertOk
        THEN [issues |-> coll, out |-> "exception",
              calls |-> << <<"insert_one", "raised">> >>]
        ELSE IF sendOk
        THEN [issues |-> insert_one(coll, doc), out |-> Submitted,
              calls |-> << <<"insert_one", "ok">>, <<"send_mail", "ok">> >>]
        ELSE [issues |-> insert_one(coll, doc), out |-> SavedNoMail,
              calls |-> << <<"insert_one", "ok">>, <<"send_mail", "raised">> >>]

--------------------------------------------------------------------------
(* Inputs of the model. *)

Usernames == {<<"a">>, <<"b">>}
Passwords == {<<"p">>, <<"q">>}

Names == {<<>>, <<" ">>, <<"n">>}
Emails == {<<>>, <<"e">>}
Mobiles == {<<>>, <<"9">>}
IssueTexts == {<<>>, <<" ">>, <<"i">>}

TicketInputs ==
    [name : Names, email : Emails, mobile : Mobiles, issue : IssueTexts]

\* one input that the handler rejects and one that it accepts
FewTicketInputs ==
    {t \in TicketInputs : t.email = <<"e">> /\ t.mobile = <<>> /\ t.issue = <<"i">>
                          /\ t.name \in {<<>>, <<"n">>}}

Prompts == {<<"h", "i">>}

\* what the model answers: bold, a bullet and a line break; or no text
Generations ==
    {GenRaises, GenText(<<"*", "*", "b", "*", "*", "\n", "*">>), GenText(None)}

\* The cells of a row: every row holds the same nine raw values, turned by
\* k places, so that a column holds another kind of value in each row.
RawCycle ==
    << <<"2">>, <<"x">>, NaN, <<"1">>, <<"1", "0">>, <<"1">>, <<"3">>, <<"1">>, <<"2">> >>

Row(label, k, institute) ==
    [category |-> label,
     Institute |-> institute,
     Branch |-> IF k % 2 = 0 THEN <<"C", "S">> ELSE <<"E", "E">>,
     cells |-> [c \in CutoffColSet |-> RawCycle[((ColIndex(c) - k) % 9) + 1]]]

\* the rows a table is made of: the group "S" with three cell vectors, and
\* the vector of k = 1 under a padded label, another group and no label
PoolRows ==
    {Row(<<"S">>, k, <<"I", Digits[k + 1]>>) : k \in {1, 4, 7}}
    \cup {Row(<<" ", "S", " ">>, 1, <<"P">>), Row(<<"G">>, 1, <<"G">>), Row(NaN, 1, <<"N">>)}

\* the schemas a table may have: all nine cutoff columns, or one missing
Schemas == {CutoffColSet, CutoffColSet \ {"fst"}}

Frame(columns, rows) ==
    [columns |-> columns,
     rows |-> [i \in 1..Len(rows) |->
                  [rows[i] EXCEPT !.cells = [c \in columns |-> rows[i].cells[c]]]]]

RowSeqs == UNION {[1..n -> PoolRows] : n \in 0..MaxRows}

Catalogs == {Frame(cols, rows) : cols \in Schemas, rows \in RowSeqs}

\* the table of the running example: two rows of the group "S"
DefaultCatalog ==
    Frame(CutoffColSet, <<Row(<<"S">>, 1, <<"I", "1">>), Row(<<" ", "S", " ">>, 1, <<"P">>)>>)

--------------------------------------------------------------------------
(* The state machine. *)

\* st.session_state after the "App State" block of a new session
NewSession == [authenticated |-> FALSE, username |-> None, chat_history |-> <<>>]

Choices == {"Home", "College Predictor", "Chatbot", "FAQs", "Submit Issue", "Logout"}

\* Page without the check of authenticated: the sidebar choice is rendered
\* for everyone
PageUngated(s, choice) == choice

\* Sidebar navigation: the page the script renders
Page(s, choice) == IF session[s].authenticated THEN choice ELSE "Login"

\* the script of session s is not in the middle of a run
Idle(s) == pending[s] = <<>>

Event(s, op, args, out, ret, calls, table) ==
    [session |-> s, op |-> op, args |-> args, out |-> out, ret |-> ret,
     calls |-> calls, table |-> table]

NoEvent == Event("none", "none", [none |-> TRUE], "none", None, <<>>, <<>>)

Init ==
    /\ users = <<>>
    /\ issues = <<>>
    /\ df = DefaultCatalog
    /\ session = [s \in Sessions |-> NewSession]
    /\ pending = [s \in Sessions |-> <<>>]
    /\ last = NoEvent

\* Login tab, button "Login"
Login(s, username, password) ==
    /\ Idle(s)
    /\ \E choice \in Choices : Page(s, choice) = "Login"
    /\ LET ret == login_user(users, username, password)
           args == [username |-> username, password |-> password]
       IN  IF IsTrue(ret)
           THEN /\ session' = [session EXCEPT ![s].authenticated = TRUE,
                                              ![s].username = username]
                /\ last' = Event(s, "login", args, "Login successful", ret, <<>>, <<>>)
           ELSE /\ session' = session
                /\ last' = Event(s, "login", args, "Invalid username or password",
                                 ret, <<>>, <<>>)
    /\ UNCHANGED <<users, issues, df, pending>>

\* Register tab, button "Register": register_user up to its find_one.
\* A username that is found ends the call with the error text; otherwise
\* the call goes on to its insert_one.
RegisterFind(s, username, password) ==
    /\ Idle(s)
    /\ \E choice \in Choices : Page(s, choice) = "Login"
    /\ IF find_one(users, username) # <<>>
       THEN /\ last' = Event(s, "register",
                             [username |-> username, password |-> password],
                             "Username already exists", None, <<>>, <<>>)
            /\ pending' = pending
       ELSE /\ Len(users) + Cardinality({t \in Sessions : ~Idle(t)}) < MaxUsers
            /\ pending' = [pending EXCEPT
                              ![s] = <<[username |-> username, password |-> password]>>]
            /\ last' = last
    /\ UNCHANGED <<users, issues, df, session>>

\* register_user from its insert_one to its return
RegisterInsert(s) ==
    /\ ~Idle(s)
    /\ users' = insert_one(users,
                    [username |-> pending[s][1].username,
                     password |-> generate_password_hash(pending[s][1].password)])
    /\ pending' = [pending EXCEPT ![s] = <<>>]
    /\ last' = Event(s, "register", pending[s][1], "Registration successful",
                     None, <<>>, <<>>)
    /\ UNCHANGED <<issues, df, session>>

\* College Predictor page, button "Predict"
Predict(s, gender, sfs_gas, category, input_rank) ==
    /\ Idle(s)
    /\ Page(s, "College Predictor") = "College Predictor"
    /\ LET r == PredictHandler(df, gender, sfs_gas, category, input_rank)
       IN  last' = Event(s, "predict",
                         [gender |-> gender, sfs_gas |-> sfs_gas,
                          category |-> category, input_rank |-> input_rank],
                         r.out, None, <<>>, r.table)
    /\ UNCHANGED <<users, issues, df, session, pending>>

\* the values the Predict form can hold: the selectbox offers the labels of
\* the table, and holds None when there is none
PredictInputs(s) ==
    \E gender \in Genders, category \in Categories, input_rank \in 1..MaxRank :
        \E sfs_gas \in (IF CategoryOptions(df) = {} THEN {None} ELSE CategoryOptions(df)) :
            Predict(s, gender, sfs_gas, category, input_rank)

\* Chatbot page, a prompt entered in the chat input
Chat(s, prompt, gen) ==
    /\ Idle(s)
    /\ Page(s, "Chatbot") = "Chatbot"
    /\ Len(session[s].chat_history) + 2 <= MaxChat
    /\ LET r == ChatHandler(session[s].chat_history, prompt, gen)
       IN  /\ session' = [session EXCEPT ![s].chat_history = r.chat_history]
           /\ last' = Event(s, "chat", [prompt |-> prompt, raises |-> gen.raises],
                            r.out, None, <<>>, <<>>)
    /\ UNCHANGED <<users, issues, df, pending>>

\* Submit Issue page, button "Submit"
SubmitIssue(s, t, insertOk, sendOk) ==
    /\ Idle(s)
    /\ Page(s, "Submit Issue") = "Submit Issue"
    /\ Len(issues) < MaxIssues
    /\ LET r == SubmitHandler(issues, t.name, t.email, t.mobile, t.issue, insertOk, sendOk)
       IN  /\ issues' = r.issues
           /\ last' = Event(s, "submit",
                            [input |-> t, insertOk |-> insertOk, sendOk |-> sendOk],
                            r.out, None, r.calls, <<>>)
    /\ UNCHANGED <<users, df, session, pending>>

\* Logout page, button "Confirm Logout"
ConfirmLogout(s) ==
    /\ Idle(s)
    /\ Page(s, "Logout") = "Logout"
    /\ session' = [session EXCEPT ![s].authenticated = FALSE, ![s].username = None]
    /\ last' = Event(s, "logout", [none |-> TRUE], "You have been logged out",
                     None, <<>>, <<>>)
    /\ UNCHANGED <<users, issues, df, pending>>

--------------------------------------------------------------------------
(* Specifications. *)

\* One browser session using every page.
OneSession == {"s1"}

Next ==
    \E s \in OneSession :
        \/ \E username \in Usernames, password \in Passwords : Login(s, username, password)
        \/ \E username \in Usernames, password \in Passwords :
               RegisterFind(s, username, password)
        \/ RegisterInsert(s)
        \/ \E sfs_gas \in CategoryOptions(df), input_rank \in 1..MaxRank :
               Predict(s, "male", sfs_gas, "OBC", input_rank)
        \/ \E prompt \in Prompts, gen \in Generations : Chat(s, prompt, gen)
        \/ \E t \in FewTicketInputs, insertOk \in BOOLEAN, sendOk \in BOOLEAN :
               SubmitIssue(s, t, insertOk, sendOk)
        \/ ConfirmLogout(s)

Spec == Init /\ [][Next]_vars

\* Two browser sessions on the Login page: each runs its own script, so the
\* find_one and insert_one of their register_user calls interleave.
NextRace ==
    \E s \in Sessions :
        \/ \E username \in Usernames, password \in Passwords : Login(s, username, password)
        \/ \E username \in Usernames, password \in Passwords :
               RegisterFind(s, username, password)
        \/ RegisterInsert(s)

SpecRace == Init /\ [][NextRace]_vars

\* The state after user "a" has registered with password "p" and logged in.
LoggedIn ==
    /\ users = <<[username |-> <<"a">>, password |-> generate_password_hash(<<"p">>)]>>
    /\ issues = <<>>
    /\ session = [s \in Sessions |->
                     IF s = "s1"
                     THEN [NewSession EXCEPT !.authenticated = TRUE, !.username = <<"a">>]
                     ELSE NewSession]
    /\ pending = [s \in Sessions |-> <<>>]
    /\ last = Event("s1", "login", [username |-> <<"a">>, password |-> <<"p">>],
                    "Login successful", PyTrue, <<>>, <<>>)

\* The College Predictor over every table of the bounds.
InitMatch == LoggedIn /\ df \in Catalogs

NextMatch == PredictInputs("s1")

SpecMatch == InitMatch /\ [][NextMatch]_vars

\* The Submit Issue page over every form input and collaborator outcome.
InitSubmit == LoggedIn /\ df = DefaultCatalog

NextSubmit ==
    \E t \in TicketInputs, insertOk \in BOOLEAN, sendOk \in BOOLEAN :
        SubmitIssue("s1", t, insertOk, sendOk)

SpecSubmit == InitSubmit /\ [][NextSubmit]_vars

--------------------------------------------------------------------------
(* Claims about the Submit Issue pipeline, under SpecSubmit. *)

\* a form input whose name, email and issue text are non-empty after trimming
ValidAfterTrim(t) ==
    strip(t.name) # <<>> /\ strip(t.email) # <<>> /\ strip(t.issue) # <<>>

TicketOf(t) == [name |-> t.name, email |-> t.email, mobile |-> t.mobile, issue |-> t.issue]

SendCalls(calls) == {i \in 1..Len(calls) : calls[i][1] = "send_mail"}
InsertCalls(calls) == {i \in 1..Len(calls) : calls[i][1] = "insert_one"}

\* C1: Durability before notify.  After a submission of a valid input whose
\* insert into the issues collection succeeded and whose mail failed, the
\* page shows "saved, but email failed" (not the success text, not a hard
\* failure, not the rejection) and the ticket is in the issues collection.
C1_DurabilityBeforeNotify ==
    (/\ last.op = "submit"
     /\ ValidAfterTrim(last.args.input)
     /\ last.args.insertOk
     /\ ~last.args.sendOk)
    => /\ last.out = SavedNoMail
       /\ last.calls = << <<"insert_one", "ok">>, <<"send_mail", "raised">> >>
       /\ issues # <<>>
       /\ issues[Len(issues)] = TicketOf(last.args.input)

C1_Witness ==
    /\ last.op = "submit"
    /\ ValidAfterTrim(last.args.input)
    /\ last.args.insertOk
    /\ ~last.args.sendOk
    /\ last.out = SavedNoMail
    /\ \E i \in 1..Len(issues) : issues[i] = TicketOf(last.args.input)

\* C2: Validation short-circuit.  A submission whose name, email or issue
\* text is empty after trimming is rejected with no insert and no mail.
C2_ValidationShortCircuit ==
    (last.op = "submit" /\ ~ValidAfterTrim(last.args.input))
    => /\ last.out = Required
       /\ InsertCalls(last.calls) = {}
       /\ SendCalls(last.calls) = {}

\* C5: Persist failure is terminal and precedes notification.  In every
\* submission a mail is sent only right after the insert of that submission
\* returned, and the insert is called at most once; when the insert raised,
\* the submission ends in the exception, with no mail, and neither the
\* success text nor "saved, but email failed" is shown.
C5_PersistBeforeNotify ==
    last.op = "submit"
    => /\ \A i \in SendCalls(last.calls) :
              i > 1 /\ last.calls[i - 1] = <<"insert_one", "ok">>
       /\ Cardinality(InsertCalls(last.calls)) <= 1
       /\ (\E i \in InsertCalls(last.calls) : last.calls[i][2] = "raised")
          => /\ last.out = "exception"
             /\ SendCalls(last.calls) = {}
             /\ last.out \notin {Submitted, SavedNoMail}

C5_Witness ==
    /\ last.op = "submit"
    /\ ~last.args.insertOk
    /\ last.calls = << <<"insert_one", "raised">> >>
    /\ last.out = "exception"

--------------------------------------------------------------------------
(* Claims about the Matching Engine (the Predict handler), under SpecMatch. *)

\* the column the query of the last Predict resolves to
ResolvedColumn == category_column_map(last.args.gender)[last.args.category]

\* the output tuple of a record: institute, branch and the value of the
\* column, NaN standing for "unknown"
TupleOf(r, col) ==
    [Institute |-> r.Institute, Branch |-> r.Branch, Cutoff |-> to_numeric(r.cells[col])]

\* the record is of the queried group and its cutoff is a number >= the
\* rank or is not a number
Eligible(r, col, q) ==
    /\ r.category # NaN
    /\ strip(r.category) = strip(q.sfs_gas)
    /\ \/ to_numeric(r.cells[col]) = NaN
       \/ to_numeric(r.cells[col])[2] >= q.input_rank

PredictedWithColumn ==
    /\ last.op = "predict"
    /\ last.args.sfs_gas # None
    /\ ResolvedColumn \in df.columns

\* C3: Result-set characterisation.  For a query whose resolved column
\* exists, a record of the table appears in the result if and only if its
\* trimmed group label equals the trimmed label of the query and its value
\* in the resolved column is a number >= the rank or is not a number.
C3_ResultSet ==
    PredictedWithColumn
    => /\ last.out = "dataframe"
       /\ \A i \in 1..Len(df.rows) :
              (\E k \in 1..Len(last.table) :
                   last.table[k] = TupleOf(df.rows[i], ResolvedColumn))
              <=> Eligible(df.rows[i], ResolvedColumn, last.args)

\* a cutoff equal to the rank is in the result, a cutoff of rank - 1 of the
\* same group is not
C3_Witness ==
    /\ PredictedWithColumn
    /\ \E k \in 1..Len(last.table) : last.table[k].Cutoff = Num(last.args.input_rank)
    /\ \E i \in 1..Len(df.rows) :
           /\ strip(df.rows[i].category) = strip(last.args.sfs_gas)
           /\ to_numeric(df.rows[i].cells[ResolvedColumn]) = Num(last.args.input_rank - 1)
           /\ \A k \in 1..Len(last.table) :
                  last.table[k] # TupleOf(df.rows[i], ResolvedColumn)

\* C4: Order-preserving projection.  The result is the subsequence of the
\* table made of the included records, in the order of the table, one tuple
\* (institute, branch, value or unknown) per included record.
C4_OrderPreservingProjection ==
    PredictedWithColumn
    => LET rows == df.rows
           t == last.table
           included == {i \in 1..Len(rows) : Eligible(rows[i], ResolvedColumn, last.args)}
       IN  /\ Len(t) = Cardinality(included)
           /\ \E f \in [1..Len(t) -> 1..Len(rows)] :
                  /\ \A j, k \in 1..Len(t) : j < k => f[j] < f[k]
                  /\ {f[k] : k \in 1..Len(t)} = included
                  /\ \A k \in 1..Len(t) : t[k] = TupleOf(rows[f[k]], ResolvedColumn)

\* two records in the result, the first with the larger cutoff
C4_Witness ==
    /\ PredictedWithColumn
    /\ Len(last.table) = 2
    /\ last.table[1].Cutoff # NaN
    /\ last.table[2].Cutoff # NaN
    /\ last.table[1].Cutoff[2] > last.table[2].Cutoff[2]

--------------------------------------------------------------------------
(* Claims about credentials, under Spec and SpecRace. *)

\* a credential record of the username exists / exists and verifies the secret
RecordExists(username) ==
    \E i \in 1..Len(users) : users[i].username = username

SecretVerifies(username, password) ==
    /\ RecordExists(username)
    /\ check_password_hash(find_one(users, username)[1].password, password)

\* C6: Login does not reveal username existence.  login_user returns true
\* exactly when a record exists and the secret verifies, and otherwise the
\* one boolean false, whether the record is missing or the secret is wrong.
C6_LoginSingleFalse ==
    last.op = "login"
    => /\ last.ret = PyTrue
          <=> SecretVerifies(last.args.username, last.args.password)
       /\ ~SecretVerifies(last.args.username, last.args.password)
          => /\ last.ret = PyFalse
             /\ last.out = "Invalid username or password"

\* C7: Username uniqueness.  No two documents of the users collection hold
\* the same username.
C7_UsernameUnique ==
    \A i, j \in 1..Len(users) :
        users[i].username = users[j].username => i = j

--------------------------------------------------------------------------
(* Claims about the session, under Spec. *)

\* C8: Generation failure never crashes the chat session.  After every
\* handled chat message the history ends with the user entry of the prompt
\* followed by an assistant entry, and the handler ended normally.
C8_ChatEndsWithAssistant ==
    last.op = "chat"
    => LET h == session[last.session].chat_history
       IN  /\ last.out = "reply"
           /\ Len(h) >= 2
           /\ h[Len(h) - 1] = [role |-> "user", content |-> last.args.prompt]
           /\ h[Len(h)].role = "assistant"

\* C9: Session reset on logout.  After Confirm Logout the session state is
\* the initial one: not authenticated, no username, empty chat history.
C9_LogoutResetsSession ==
    last.op = "logout" => session[last.session] = NewSession

\* a step of session s on a page other than Login: the handler of Predict,
\* of a chat message, of Submit or of Confirm Logout, on the inputs that the
\* step records in last
GatedStep(s) ==
    \/ /\ last'.op = "predict"
       /\ Predict(s, last'.args.gender, last'.args.sfs_gas, last'.args.category,
                  last'.args.input_rank)
    \/ /\ last'.op = "chat"
       /\ \E gen \in Generations : Chat(s, last'.args.prompt, gen)
    \/ /\ last'.op = "submit"
       /\ SubmitIssue(s, last'.args.input, last'.args.insertOk, last'.args.sendOk)
    \/ ConfirmLogout(s)

\* C10: Authentication gating.  authenticated starts false; it is true
\* exactly when username is not None; Predict, a chat message, Submit Issue
\* and Confirm Logout are handled only in a session that is authenticated;
\* and authenticated turns from false to true only in a Login step whose
\* login_user call returned a true value, which sets username to the
\* submitted username.
C10_AuthenticationGating ==
    /\ \A s \in Sessions : ~session[s].authenticated
    /\ [](\A s \in Sessions : session[s].authenticated <=> session[s].username # None)
    /\ [][\A s \in Sessions : GatedStep(s) => session[s].authenticated]_vars
    /\ [][\A s \in Sessions :
            (~session[s].authenticated /\ session'[s].authenticated)
            => /\ last'.op = "login"
               /\ last'.session = s
               /\ IsTrue(last'.ret)
               /\ IsTrue(login_user(users, last'.args.username, last'.args.password))
               /\ session'[s].username = last'.args.username]_vars

\* a page other than Login was handled in a session that had logged in
C10_Witness ==
    /\ last.op \in {"predict", "chat", "submit"}
    /\ session[last.session].authenticated
    /\ session[last.session].username \in Usernames
    /\ RecordExists(session[last.session].username)

==========================================================================
